---- MODULE Spec2Model ----
(***************************************************************************)
(* Greenlight movie API: the update, create and delete handlers of         *)
(* cmd/api/movies.go over the versioned movie store, and the list handler  *)
(* with the Filters validation of internal/data.                           *)
(*                                                                         *)
(* The movie store (Get, Insert, Update, Delete), the validator package,   *)
(* data.ValidateMovie and the request helpers (readIDParam, readJSON,      *)
(* readInt, readString) are collaborators modelled by their contract: the  *)
(* DataStore contract and the domain rules.  The store answers every call  *)
(* with one of the results of its contract (no infrastructure failure).    *)
(* The contract leaves open whether Update writes the new version into the *)
(* caller's record, as Insert does with id and version; both kinds of      *)
(* store are modelled (returnsVersion).                                    *)
(*                                                                         *)
(* The title and genres filters of the list endpoint only select rows and  *)
(* are left out.                                                           *)
(*                                                                         *)
(* serve() of cmd/api/server.go is modelled with its signal goroutine, the *)
(* quit and shutdownError channels and the connections the server serves   *)
(* through the recoverPanic middleware.  http.Server is modelled by what   *)
(* its documentation promises: after Shutdown is called ListenAndServe     *)
(* returns ErrServerClosed, before that it may fail with another error,    *)
(* and Shutdown returns nil once no connection is being served or the      *)
(* context's error when the deadline passes first.  A SIGINT or SIGTERM    *)
(* that arrives before signal.Notify has taken effect ends the process.    *)
(***************************************************************************)
EXTENDS Integers, Sequences, FiniteSets, TLC

VARIABLES
    movies,         \* the movies table: id -> [title, year, runtime, genres, version]
    nextID,         \* the id the store assigns to the next inserted row
    returnsVersion, \* whether the store's Update writes the new version into the caller's record
    req,            \* one record per in-flight HTTP request (handler locals and position)
    lastOp,         \* history: the last write call received by the store
    succeeded,      \* history: the <<id, version>> pairs of the Updates that succeeded
    lreq,           \* the list request: query, position, validator, what reached GetAll
    call,           \* the last direct application of a Filters function and its result
    main,           \* serve(): the position of the calling goroutine, and its return value
    bg,             \* serve(): the background goroutine (position, signal read, value to send)
    quit,           \* the quit channel (buffered, capacity 1)
    srv,            \* the http.Server and the process around it
    conns           \* the connections accepted by the server, one request each

serveVars == <<main, bg, quit, srv, conns>>

vars == <<movies, nextID, returnsVersion, req, lastOp, succeeded, lreq, call, serveVars>>

\* What a step of the list endpoint leaves alone, and what a step of the other handlers does
movieVars == <<movies, nextID, returnsVersion, req, lastOp, succeeded, serveVars>>
listVars == <<lreq, call, serveVars>>

\* What a step of serve() or of a connection leaves alone
apiVars == <<movies, nextID, returnsVersion, req, lastOp, succeeded, lreq, call>>

-----------------------------------------------------------------------------
(* Bounds *)

NumReqs == 2        \* HTTP requests served (concurrently) in one behaviour
MaxMovies == 2      \* rows the store ever assigns an id to
NumConns == 2       \* connections the server accepts in one behaviour
MaxSignals == 2     \* SIGINT/SIGTERM signals sent to the process in one behaviour

Reqs == 1..NumReqs
Conns == 1..NumConns

-----------------------------------------------------------------------------
(* Optional values: a nil pointer / nil slice is <<>>, a present value <<x>> *)

Nil == <<>>
Some(x) == <<x>>
IsNil(o) == o = <<>>
Val(o) == o[1]

-----------------------------------------------------------------------------
(* validator package *)

NoErrors == [k \in {} |-> ""]

AddError(v, key, message) == IF key \in DOMAIN v THEN v ELSE v @@ (key :> message)

Check(v, ok, key, message) == IF ok THEN v ELSE AddError(v, key, message)

Valid(v) == DOMAIN v = {}

In(value, list) == \E i \in 1..Len(list) : list[i] = value

Unique(values) == Cardinality({values[i] : i \in 1..Len(values)}) = Len(values)

-----------------------------------------------------------------------------
(* Movie records and data.ValidateMovie *)

CurrentYear == 2026

LongTitle == "a title of 501 bytes"

\* len(movie.Title) in bytes
TitleBytes(t) ==
    CASE t = "" -> 0
      [] t = "Up" -> 2
      [] t = "Jaws" -> 4
      [] t = LongTitle -> 501

ValidateMovie(v, movie) ==
    LET v1 == Check(v, movie.title # "", "title", "must be provided")
        v2 == Check(v1, TitleBytes(movie.title) <= 500, "title", "must not be more than 500 bytes long")
        v3 == Check(v2, movie.year >= 1888, "year", "must be greater than 1888")
        v4 == Check(v3, movie.year <= CurrentYear, "year", "must not be in the future")
        v5 == Check(v4, movie.runtime > 0, "runtime", "must be a positive integer")
        v6 == Check(v5, Len(movie.genres) >= 1, "genres", "must contain at least 1 genre")
        v7 == Check(v6, Len(movie.genres) <= 5, "genres", "must not contain more than 5 genres")
    IN  Check(v7, Unique(movie.genres), "genres", "must not contain duplicate values")

-----------------------------------------------------------------------------
(* Request bodies *)

ZeroMovie == [id |-> 0, title |-> "", year |-> 0, runtime |-> 0, genres |-> <<>>, version |-> 0]

\* The keys of a JSON body: the four of the input structs, and id and version
NoInput == [title |-> Nil, year |-> Nil, runtime |-> Nil, genres |-> Nil,
            id |-> Nil, version |-> Nil]

SixGenres == <<"a", "b", "c", "d", "e", "f">>

\* The JSON bodies a client sends: each key absent (Nil) or present with a value.
Payloads ==
    { NoInput,
      [NoInput EXCEPT !.title = Some("Up")],
      [NoInput EXCEPT !.genres = Some(<<"war">>)],
      [NoInput EXCEPT !.title = Some("Up"), !.year = Some(1999), !.runtime = Some(90),
                      !.genres = Some(<<"war">>)],
      [NoInput EXCEPT !.title = Some("Up"), !.year = Some(1999), !.runtime = Some(90),
                      !.genres = Some(<<"war">>), !.id = Some(1), !.version = Some(7)],
      [NoInput EXCEPT !.title = Some("")],
      [NoInput EXCEPT !.title = Some(LongTitle)],
      [NoInput EXCEPT !.year = Some(1887)],
      [NoInput EXCEPT !.year = Some(CurrentYear + 1)],
      [NoInput EXCEPT !.runtime = Some(0)],
      [NoInput EXCEPT !.genres = Some(<<>>)],
      [NoInput EXCEPT !.genres = Some(<<"war", "war">>)],
      [NoInput EXCEPT !.genres = Some(SixGenres)],
      [NoInput EXCEPT !.title = Some(""), !.genres = Some(<<>>)] }

\* A request body: JSON readJSON decodes into the input struct, or one it rejects
BadJSON == [malformed |-> TRUE, input |-> NoInput]

Bodies == {[malformed |-> FALSE, input |-> p] : p \in Payloads} \cup {BadJSON}

\* The body holds a key the input struct has no field for
HasUnknownKey(body) == ~IsNil(body.input.id) \/ ~IsNil(body.input.version)

\* The input struct after decoding: a key without a field leaves no trace
Decoded(input) == [input EXCEPT !.id = Nil, !.version = Nil]

\* readJSON returns an error: always for malformed JSON; for a key without a field, a
\* decoder that disallows unknown fields does and one that ignores them does not
readJSONFails(body, strict) == body.malformed \/ (strict /\ HasUnknownKey(body))

\* The decoders to consider for a body: one suffices when the body holds no such key
Decoders(body) == IF HasUnknownKey(body) THEN BOOLEAN ELSE {FALSE}

\* The :id URL parameter; readIDParam fails on anything that is not a positive integer (0 here).
IdParams == 0..MaxMovies

-----------------------------------------------------------------------------
(* The movie store (DataStore contract) *)

ErrRecordNotFound == "record not found"
ErrEditConflict == "edit conflict"
NoError == "nil"

\* Get(id): the row as a Movie value
Get(id) == [id |-> id, title |-> movies[id].title, year |-> movies[id].year,
            runtime |-> movies[id].runtime, genres |-> movies[id].genres,
            version |-> movies[id].version]

\* The row Insert stores: version 1
InsertRow(m) == [title |-> m.title, year |-> m.year, runtime |-> m.runtime,
                 genres |-> m.genres, version |-> 1]

\* Mutant: the write is conditional on the id alone
UpdateMatchesById(m) == m.id \in DOMAIN movies

\* The conditional write's condition: a row with that id whose version is the submitted one
UpdateMatches(m) == m.id \in DOMAIN movies /\ movies[m.id].version = m.version

\* Mutant: the write leaves the version as it is
UpdateRowSameVersion(m) == [title |-> m.title, year |-> m.year, runtime |-> m.runtime,
                            genres |-> m.genres, version |-> movies[m.id].version]

\* The row Update stores when the condition holds: the submitted fields, version + 1
UpdateRow(m) == [title |-> m.title, year |-> m.year, runtime |-> m.runtime,
                 genres |-> m.genres, version |-> movies[m.id].version + 1]

\* The error Update returns
UpdateErr(m) == IF UpdateMatches(m) THEN NoError ELSE ErrEditConflict

\* The caller's record after Update returned
UpdatedMovie(m) ==
    IF UpdateMatches(m) /\ returnsVersion
    THEN [m EXCEPT !.version = UpdateRow(m).version]
    ELSE m

StoredVersion(id) == IF id \in DOMAIN movies THEN movies[id].version ELSE 0

\* Update(m) called by request r as its n-th store write call
Update(r, n, m) ==
    /\ movies' = IF UpdateMatches(m) THEN [movies EXCEPT ![m.id] = UpdateRow(m)] ELSE movies
    /\ lastOp' = [op |-> "Update", req |-> r, n |-> n, id |-> m.id, version |-> m.version,
                  before |-> StoredVersion(m.id), seen |-> req[r].seen, err |-> UpdateErr(m),
                  sent |-> m.id]
    /\ succeeded' = IF UpdateMatches(m) THEN succeeded \cup {<<m.id, m.version>>} ELSE succeeded
    /\ UNCHANGED nextID

-----------------------------------------------------------------------------
(* updateMovieHandler *)

\* The merge of the payload onto the fetched record
Merge(movie, input) ==
    [movie EXCEPT
        !.title = IF IsNil(input.title) THEN @ ELSE Val(input.title),
        !.year = IF IsNil(input.year) THEN @ ELSE Val(input.year),
        !.runtime = IF IsNil(input.runtime) THEN @ ELSE Val(input.runtime),
        !.genres = IF IsNil(input.genres) THEN @ ELSE Val(input.genres)]

\* The response to an error of the first Update call
FirstUpdateResponse(err) == "serverError"

\* The response to an error of the second Update call
SecondUpdateResponse(err) == IF err = ErrEditConflict THEN "editConflict" ELSE "serverError"

Respond(status, errors) == [status |-> status, errors |-> errors]

NoResponse == Respond("", NoErrors)

IdleReq == [kind |-> "none", pc |-> "idle", id |-> 0, movie |-> ZeroMovie, fetched |-> ZeroMovie,
            input |-> NoInput, resp |-> NoResponse,
            seen |-> 0,         \* history: the version this request last read from the store
            calls |-> 0,        \* history: Insert and Update calls made
            wrote |-> 0,        \* history: rows this request wrote
            conflict |-> FALSE, \* history: an Update call returned ErrEditConflict
            after |-> {}]       \* history: the updates of the same record that had ended with
                                \* the edit-conflict response when this one fetched

Finish(q, status, errors) == [q EXCEPT !.pc = "done", !.resp = Respond(status, errors)]

\* The update requests for record id that have ended with the edit-conflict response
ConflictedUpdates(id) ==
    {r \in Reqs : /\ req[r].kind = "update" /\ req[r].pc = "done"
                  /\ req[r].id = id /\ req[r].resp.status = "editConflict"}

\* Mutant: the handler goes on with an empty record when Get finds none
UpdateFetchIgnoresNotFound(r, id) ==
    /\ req[r].pc = "idle"
    /\ LET q == [req[r] EXCEPT !.kind = "update", !.id = id]
           m == IF id \in DOMAIN movies THEN Get(id) ELSE [ZeroMovie EXCEPT !.id = id]
       IN  req' = [req EXCEPT ![r] =
                IF id < 1
                THEN Finish(q, "notFound", NoErrors)
                ELSE [q EXCEPT !.pc = "fetched", !.movie = m, !.fetched = m,
                               !.seen = m.version,
                               !.after = ConflictedUpdates(id)]]
    /\ UNCHANGED <<movies, nextID, returnsVersion, lastOp, succeeded, listVars>>

\* readIDParam and Movies.Get
UpdateFetch(r, id) ==
    /\ req[r].pc = "idle"
    /\ LET q == [req[r] EXCEPT !.kind = "update", !.id = id]
       IN  req' = [req EXCEPT ![r] =
                IF id < 1 \/ id \notin DOMAIN movies
                THEN Finish(q, "notFound", NoErrors)
                ELSE [q EXCEPT !.pc = "fetched", !.movie = Get(id), !.fetched = Get(id),
                               !.seen = Get(id).version,
                               !.after = ConflictedUpdates(id)]]
    /\ UNCHANGED <<movies, nextID, returnsVersion, lastOp, succeeded, listVars>>

\* Mutant: the handler goes on to the write whatever the validator holds
PassesUnchecked(movie) == TRUE

\* The guard of the write: the merged record passes data.ValidateMovie
PassesValidation(movie) == Valid(ValidateMovie(NoErrors, movie))

\* readJSON, the merge and ValidateMovie
UpdatePrepare(r, body) ==
    /\ req[r].pc = "fetched"
    /\ LET q == [req[r] EXCEPT !.input = Decoded(body.input),
                               !.movie = Merge(req[r].movie, Decoded(body.input))]
       IN  \E strict \in Decoders(body) :
            req' = [req EXCEPT ![r] =
                IF readJSONFails(body, strict)
                THEN Finish(req[r], "badRequest", NoErrors)
                ELSE IF PassesValidation(q.movie)
                THEN [q EXCEPT !.pc = "update"]
                ELSE Finish(q, "failedValidation", ValidateMovie(NoErrors, q.movie))]
    /\ UNCHANGED <<movies, nextID, returnsVersion, lastOp, succeeded, listVars>>

\* The first Movies.Update call
UpdateCommit(r) ==
    /\ req[r].pc = "update"
    /\ LET m == req[r].movie
           q == [req[r] EXCEPT !.calls = @ + 1,
                               !.wrote = IF UpdateMatches(m) THEN @ + 1 ELSE @,
                               !.conflict = @ \/ UpdateErr(m) = ErrEditConflict,
                               !.movie = UpdatedMovie(m),
                               !.seen = IF UpdateMatches(m) /\ returnsVersion
                                        THEN UpdateRow(m).version ELSE @]
       IN  /\ Update(r, req[r].calls + 1, m)
           /\ req' = [req EXCEPT ![r] =
                    IF UpdateErr(m) # NoError
                    THEN Finish(q, FirstUpdateResponse(UpdateErr(m)), NoErrors)
                    ELSE [q EXCEPT !.pc = "update again"]]
    /\ UNCHANGED <<returnsVersion, listVars>>

\* A second Update call submitting m, and the response
UpdateAgainWith(r, m) ==
    /\ req[r].pc = "update again"
    /\ LET q == [req[r] EXCEPT !.calls = @ + 1,
                               !.wrote = IF UpdateMatches(m) THEN @ + 1 ELSE @,
                               !.conflict = @ \/ UpdateErr(m) = ErrEditConflict,
                               !.movie = UpdatedMovie(m),
                               !.seen = IF UpdateMatches(m) /\ returnsVersion
                                        THEN UpdateRow(m).version ELSE @]
       IN  /\ Update(r, req[r].calls + 1, m)
           /\ req' = [req EXCEPT ![r] =
                    IF UpdateErr(m) # NoError
                    THEN Finish(q, SecondUpdateResponse(UpdateErr(m)), NoErrors)
                    ELSE Finish(q, "ok", NoErrors)]
    /\ UNCHANGED <<returnsVersion, listVars>>

\* Mutant: the handler refreshes the version from the store before it resubmits
UpdateCommitAgainRefreshed(r) ==
    UpdateAgainWith(r, [req[r].movie EXCEPT !.version = StoredVersion(req[r].id)])

\* The second Movies.Update call, on the same record, and the response
UpdateCommitAgain(r) == UpdateAgainWith(r, req[r].movie)

-----------------------------------------------------------------------------
(* showMovieHandler *)

\* The status codes of the responses
StatusCode(status) ==
    CASE status = "ok" -> 200
      [] status = "created" -> 201
      [] status = "badRequest" -> 400
      [] status = "notFound" -> 404
      [] status = "httpNotFound" -> 404
      [] status = "editConflict" -> 409
      [] status = "failedValidation" -> 422
      [] status = "serverError" -> 500
      [] OTHER -> 0

\* readIDParam, Movies.Get and the response
ShowMovie(r, id) ==
    /\ req[r].pc = "idle"
    /\ LET q == [req[r] EXCEPT !.kind = "show", !.id = id]
       IN  req' = [req EXCEPT ![r] =
                IF id < 1
                THEN Finish(q, "httpNotFound", NoErrors)
                ELSE IF id \notin DOMAIN movies
                THEN Finish(q, "notFound", NoErrors)
                ELSE Finish([q EXCEPT !.movie = Get(id), !.seen = Get(id).version],
                            "ok", NoErrors)]
    /\ UNCHANGED <<movies, nextID, returnsVersion, lastOp, succeeded, listVars>>

-----------------------------------------------------------------------------
(* createMovieHandler *)

\* The zero value replaces an absent key when the body is decoded into non-pointer fields
OrZero(o, zero) == IF IsNil(o) THEN zero ELSE Val(o)

\* Mutant: the body is decoded into the Movie struct itself
NewMovieFromBody(input) == [ZeroMovie EXCEPT !.title = OrZero(input.title, ""),
                                             !.year = OrZero(input.year, 0),
                                             !.runtime = OrZero(input.runtime, 0),
                                             !.genres = OrZero(input.genres, <<>>),
                                             !.id = OrZero(input.id, 0),
                                             !.version = OrZero(input.version, 0)]

\* The record the handler builds from the decoded input: no ID, no Version
NewMovie(input) == [ZeroMovie EXCEPT !.title = OrZero(input.title, ""),
                                     !.year = OrZero(input.year, 0),
                                     !.runtime = OrZero(input.runtime, 0),
                                     !.genres = OrZero(input.genres, <<>>)]

\* Insert(m): the caller's record with the assigned id and version
Inserted(m) == [m EXCEPT !.id = nextID, !.version = 1]

\* readJSON, ValidateMovie, Movies.Insert and the response
CreateMovie(r, body) ==
    /\ req[r].pc = "idle"
    /\ LET q == [req[r] EXCEPT !.kind = "create"]
           m == NewMovie(body.input)
       IN  \E strict \in Decoders(body) :
           IF readJSONFails(body, strict)
           THEN /\ req' = [req EXCEPT ![r] = Finish(q, "badRequest", NoErrors)]
                /\ UNCHANGED <<movies, nextID, lastOp>>
           ELSE IF ~PassesValidation(m)
           THEN /\ req' = [req EXCEPT ![r] =
                        Finish([q EXCEPT !.input = body.input, !.movie = m],
                               "failedValidation", ValidateMovie(NoErrors, m))]
                /\ UNCHANGED <<movies, nextID, lastOp>>
           ELSE /\ nextID <= MaxMovies
                /\ movies' = movies @@ (nextID :> InsertRow(m))
                /\ nextID' = nextID + 1
                /\ lastOp' = [op |-> "Insert", req |-> r, n |-> 1, id |-> nextID, version |-> m.version,
                              before |-> 0, seen |-> 0, err |-> NoError, sent |-> m.id]
                /\ req' = [req EXCEPT ![r] =
                        Finish([q EXCEPT !.input = body.input, !.movie = Inserted(m), !.id = nextID,
                                         !.seen = 1, !.calls = 1, !.wrote = 1],
                               "created", NoErrors)]
    /\ UNCHANGED <<returnsVersion, succeeded, listVars>>

-----------------------------------------------------------------------------
(* deleteMovieHandler *)

\* Mutant: the delete removes the row and every row after it
DeleteMovieAndLater(r, id) ==
    /\ req[r].pc = "idle"
    /\ LET q == [req[r] EXCEPT !.kind = "delete", !.id = id]
       IN  IF id < 1
           THEN /\ req' = [req EXCEPT ![r] = Finish(q, "notFound", NoErrors)]
                /\ UNCHANGED <<movies, lastOp>>
           ELSE /\ movies' = [i \in {j \in DOMAIN movies : j < id} |-> movies[i]]
                /\ lastOp' = [op |-> "Delete", req |-> r, n |-> 1, id |-> id, version |-> 0,
                              before |-> StoredVersion(id), seen |-> 0,
                              err |-> IF id \in DOMAIN movies THEN NoError ELSE ErrRecordNotFound,
                              sent |-> id]
                /\ req' = [req EXCEPT ![r] =
                        IF id \in DOMAIN movies
                        THEN Finish([q EXCEPT !.wrote = 1], "ok", NoErrors)
                        ELSE Finish(q, "notFound", NoErrors)]
    /\ UNCHANGED <<nextID, returnsVersion, succeeded, listVars>>

\* readIDParam, Movies.Delete and the response
DeleteMovie(r, id) ==
    /\ req[r].pc = "idle"
    /\ LET q == [req[r] EXCEPT !.kind = "delete", !.id = id]
       IN  IF id < 1
           THEN /\ req' = [req EXCEPT ![r] = Finish(q, "notFound", NoErrors)]
                /\ UNCHANGED <<movies, lastOp>>
           ELSE /\ movies' = [i \in DOMAIN movies \ {id} |-> movies[i]]
                /\ lastOp' = [op |-> "Delete", req |-> r, n |-> 1, id |-> id, version |-> 0,
                              before |-> StoredVersion(id), seen |-> 0,
                              err |-> IF id \in DOMAIN movies THEN NoError ELSE ErrRecordNotFound,
                              sent |-> id]
                /\ req' = [req EXCEPT ![r] =
                        IF id \in DOMAIN movies
                        THEN Finish([q EXCEPT !.wrote = 1], "ok", NoErrors)
                        ELSE Finish(q, "notFound", NoErrors)]
    /\ UNCHANGED <<nextID, returnsVersion, succeeded, listVars>>

-----------------------------------------------------------------------------
(* data.Filters (strings are sequences of characters) *)

str_id == <<"i", "d">>
str_title == <<"t", "i", "t", "l", "e">>
str_year == <<"y", "e", "a", "r">>
str_runtime == <<"r", "u", "n", "t", "i", "m", "e">>
str_budget == <<"b", "u", "d", "g", "e", "t">>

Minus(str) == <<"-">> \o str

\* Mutant: the endpoint offers a sort key that names no column of the fixed four
MovieSortSafeListWithBudget == <<str_id, str_title, str_year, str_runtime,
                                 Minus(str_id), Minus(str_title), Minus(str_year),
                                 Minus(str_runtime), str_budget>>

\* The safelist the list endpoint declares
MovieSortSafeList == <<str_id, str_title, str_year, str_runtime,
                       Minus(str_id), Minus(str_title), Minus(str_year), Minus(str_runtime)>>

MaxPage == 10000000
MaxPageSize == 100

\* Mutant: the sort value is not checked against the safelist
ValidateFiltersNoSort(v, f) ==
    LET v1 == Check(v, f.Page > 0, "page", "must be greater than zero")
        v2 == Check(v1, f.Page <= MaxPage, "page", "must be a maximum of 10 million")
        v3 == Check(v2, f.PageSize > 0, "page_size", "must be greater than zero")
    IN  Check(v3, f.PageSize <= MaxPageSize, "page_size", "must be a maximum of 100")

\* Mutant: the checks stop at the first one that fails
ValidateFiltersFirstOnly(v, f) ==
    IF ~(f.Page > 0) THEN AddError(v, "page", "must be greater than zero")
    ELSE IF ~(f.Page <= MaxPage) THEN AddError(v, "page", "must be a maximum of 10 million")
    ELSE IF ~(f.PageSize > 0) THEN AddError(v, "page_size", "must be greater than zero")
    ELSE IF ~(f.PageSize <= MaxPageSize) THEN AddError(v, "page_size", "must be a maximum of 100")
    ELSE IF ~In(f.Sort, f.SortSafeList) THEN AddError(v, "sort", "invalid sort value")
    ELSE v

ValidateFilters(v, f) ==
    LET v1 == Check(v, f.Page > 0, "page", "must be greater than zero")
        v2 == Check(v1, f.Page <= MaxPage, "page", "must be a maximum of 10 million")
        v3 == Check(v2, f.PageSize > 0, "page_size", "must be greater than zero")
        v4 == Check(v3, f.PageSize <= MaxPageSize, "page_size", "must be a maximum of 100")
    IN  Check(v4, In(f.Sort, f.SortSafeList), "sort", "invalid sort value")

\* strings.HasPrefix and strings.TrimPrefix
HasPrefix(s, prefix) == Len(s) >= Len(prefix) /\ SubSeq(s, 1, Len(prefix)) = prefix

TrimPrefix(s, prefix) == IF HasPrefix(s, prefix) THEN SubSeq(s, Len(prefix) + 1, Len(s)) ELSE s

\* The outcome of a call that returns a string or panics with a message
Returns(str) == [panic |-> FALSE, value |-> str]
Panics(msg) == [panic |-> TRUE, value |-> msg]

\* Mutant: every leading hyphen is stripped
RECURSIVE TrimLeftHyphens(_)
TrimLeftHyphens(s) == IF HasPrefix(s, <<"-">>) THEN TrimLeftHyphens(Tail(s)) ELSE s

sortColumnTrimLeft(f) ==
    IF \E i \in 1..Len(f.SortSafeList) : f.Sort = f.SortSafeList[i]
    THEN Returns(TrimLeftHyphens(f.Sort))
    ELSE Panics(<<"unsafe sort parameter: ">> \o f.Sort)

\* Mutant: the loop over the safelist misses its first entry
sortColumnSkipsFirst(f) ==
    IF \E i \in 2..Len(f.SortSafeList) : f.Sort = f.SortSafeList[i]
    THEN Returns(TrimPrefix(f.Sort, <<"-">>))
    ELSE Panics(<<"unsafe sort parameter: ">> \o f.Sort)

\* sortColumn: the loop over the safelist, then the panic
sortColumn(f) ==
    IF \E i \in 1..Len(f.SortSafeList) : f.Sort = f.SortSafeList[i]
    THEN Returns(TrimPrefix(f.Sort, <<"-">>))
    ELSE Panics(<<"unsafe sort parameter: ">> \o f.Sort)

sortDirection(f) == IF HasPrefix(f.Sort, <<"-">>) THEN "DESC" ELSE "ASC"

limit(f) == f.PageSize

\* Mutant: the offset of page n is n pages
offsetOfPage(f) == f.Page * f.PageSize

\* offset: the products stay below 2^31 for every page and page size the model draws
offset(f) == (f.Page - 1) * f.PageSize

-----------------------------------------------------------------------------
(* Pagination metadata *)

ZeroMetadata == [CurrentPage |-> 0, PageSize |-> 0, FirstPage |-> 0, LastPage |-> 0,
                 TotalRecords |-> 0]

\* Mutant: the last page is the floor of the quotient
calculateMetadataFloor(totalRecords, page, pageSize) ==
    IF totalRecords = 0
    THEN ZeroMetadata
    ELSE [CurrentPage |-> page, PageSize |-> pageSize, FirstPage |-> 1,
          LastPage |-> totalRecords \div pageSize,
          TotalRecords |-> totalRecords]

\* Mutant: an empty result is described like any other
calculateMetadataNoZeroCase(totalRecords, page, pageSize) ==
    [CurrentPage |-> page, PageSize |-> pageSize, FirstPage |-> 1,
     LastPage |-> (totalRecords + pageSize - 1) \div pageSize,
     TotalRecords |-> totalRecords]

\* ComputeMetadata: the zero value for an empty result, else ceiling division
calculateMetadata(totalRecords, page, pageSize) ==
    IF totalRecords = 0
    THEN ZeroMetadata
    ELSE [CurrentPage |-> page, PageSize |-> pageSize, FirstPage |-> 1,
          LastPage |-> (totalRecords + pageSize - 1) \div pageSize,
          TotalRecords |-> totalRecords]

-----------------------------------------------------------------------------
(* listMoviesHandler *)

DefaultPage == 1
DefaultPageSize == 20

\* A query-string value: absent, an integer in decimal, or other text
Absent == [given |-> FALSE, int |-> FALSE, n |-> 0, text |-> <<>>]
IntValue(n) == [given |-> TRUE, int |-> TRUE, n |-> n, text |-> <<>>]
TextValue(str) == [given |-> TRUE, int |-> FALSE, n |-> 0, text |-> str]

\* readInt: the default when the key is absent; the default and an error when it is not an integer
readInt(value, default) == IF value.given /\ value.int THEN value.n ELSE default

readIntErrors(v, value, key) ==
    IF value.given /\ ~value.int THEN AddError(v, key, "must be an integer value") ELSE v

\* readString: the default when the key is absent or empty
readString(value, default) == IF value.given /\ value.text # <<>> THEN value.text ELSE default

PageValues == {Absent, TextValue(<<"x">>), IntValue(-1), IntValue(0), IntValue(1), IntValue(2),
               IntValue(MaxPage), IntValue(MaxPage + 1)}

PageSizeValues == {Absent, TextValue(<<"x">>), IntValue(-1), IntValue(0), IntValue(1),
                   IntValue(MaxPageSize), IntValue(MaxPageSize + 1)}

SortStrings == {MovieSortSafeList[i] : i \in 1..Len(MovieSortSafeList)}
                \cup {str_budget, Minus(str_budget), Minus(Minus(str_id)), <<"-">>,
                      <<"I", "D">>, str_id \o <<" ">>}

SortValues == {Absent} \cup {TextValue(str) : str \in SortStrings}

\* The Filters value the handler builds from the query string
ListFilters(page, page_size, sort) ==
    [Page |-> readInt(page, DefaultPage), PageSize |-> readInt(page_size, DefaultPageSize),
     Sort |-> readString(sort, str_id), SortSafeList |-> MovieSortSafeList]

\* Movies.GetAll(f): what the query is built from
NoQuery == [column |-> <<>>, direction |-> "", limit |-> 0, offset |-> 0]

GetAllQuery(f) == [column |-> sortColumn(f).value, direction |-> sortDirection(f),
                   limit |-> limit(f), offset |-> offset(f)]

\* Movies.GetAll(f): the number of rows that match (no title or genres filter is modelled)
TotalRecords == Cardinality(DOMAIN movies)

IdleList == [pc |-> "idle", page |-> Absent, page_size |-> Absent, sort |-> Absent,
             filters |-> ListFilters(Absent, Absent, Absent), errors |-> NoErrors,
             resp |-> NoResponse,
             getAll |-> <<>>,   \* the Filters values passed to Movies.GetAll
             panicked |-> FALSE,    \* sortColumn panicked under Movies.GetAll
             query |-> NoQuery,
             metadata |-> ZeroMetadata]

NoCall == [fn |-> "", f |-> ListFilters(Absent, Absent, Absent), out |-> NoErrors]

\* The whole handler: the query string is read, the filters are validated, GetAll is called
ListMovies(page, page_size, sort) ==
    /\ lreq.pc = "idle"
    /\ call.fn = ""
    /\ LET f == ListFilters(page, page_size, sort)
           v == ValidateFilters(readIntErrors(readIntErrors(NoErrors, page, "page"),
                                              page_size, "page_size"), f)
           q == [lreq EXCEPT !.pc = "done", !.page = page, !.page_size = page_size,
                             !.sort = sort, !.filters = f, !.errors = v]
       IN  lreq' = IF ~Valid(v)
                   THEN [q EXCEPT !.resp = Respond("failedValidation", v)]
                   ELSE IF sortColumn(f).panic
                   THEN [q EXCEPT !.resp = Respond("serverError", NoErrors), !.getAll = <<f>>,
                                  !.panicked = TRUE]
                   ELSE [q EXCEPT !.resp = Respond("ok", NoErrors), !.getAll = <<f>>,
                                  !.query = GetAllQuery(f),
                                  !.metadata = calculateMetadata(TotalRecords, f.Page, f.PageSize)]
    /\ UNCHANGED <<call, movieVars>>

\* A direct application of ValidateFilters to a fresh validator (one per behaviour)
SafeLists == {MovieSortSafeList, <<str_id, Minus(str_id)>>, <<>>}

PageInts == {-1, 0, 1, 2, MaxPage, MaxPage + 1}
PageSizeInts == {-1, 0, 1, 20, MaxPageSize, MaxPageSize + 1}

CallValidateFilters(f) ==
    /\ lreq.pc = "idle"
    /\ call.fn = ""
    /\ call' = [fn |-> "ValidateFilters", f |-> f, out |-> ValidateFilters(NoErrors, f)]
    /\ UNCHANGED <<lreq, movieVars>>

\* A direct application of limit and offset
CallBounds(f) ==
    /\ lreq.pc = "idle"
    /\ call.fn = ""
    /\ call' = [fn |-> "bounds", f |-> f, out |-> [limit |-> limit(f), offset |-> offset(f)]]
    /\ UNCHANGED <<lreq, movieVars>>

\* Safelists a caller of sortColumn may pass, one of them with keys that begin with two hyphens
SortSafeLists == SafeLists \cup {<<str_id, Minus(Minus(str_id)), <<"-">>, Minus(str_budget)>>}

\* A direct application of sortColumn and sortDirection
CallSort(f) ==
    /\ lreq.pc = "idle"
    /\ call.fn = ""
    /\ call' = [fn |-> "sort", f |-> f,
                out |-> [column |-> sortColumn(f), direction |-> sortDirection(f)]]
    /\ UNCHANGED <<lreq, movieVars>>

Totals == {0, 1, 2, 19, 20, 21, 40, 41, 99, 100, 101}
MetadataPages == {1, 2, 3}
MetadataPageSizes == {1, 2, 20, MaxPageSize}

\* A direct application of calculateMetadata
CallCalculateMetadata(totalRecords, page, pageSize) ==
    /\ lreq.pc = "idle"
    /\ call.fn = ""
    /\ call' = [fn |-> "calculateMetadata",
                f |-> [TotalRecords |-> totalRecords, Page |-> page, PageSize |-> pageSize],
                out |-> calculateMetadata(totalRecords, page, pageSize)]
    /\ UNCHANGED <<lreq, movieVars>>

-----------------------------------------------------------------------------
(* The server: requests are served concurrently, one goroutine each *)

\* The last call of the store: id is the row's, sent and version are the submitted record's
NoOp == [op |-> "none", req |-> 0, n |-> 0, id |-> 0, version |-> 0, before |-> 0, seen |-> 0,
         err |-> NoError, sent |-> 0]

FirstMovie == [title |-> "Jaws", year |-> 1975, runtime |-> 124, genres |-> <<"thriller">>,
               version |-> 1]

InitList ==
    /\ lreq = IdleList
    /\ call = NoCall

-----------------------------------------------------------------------------
(* recoverPanic and routes: the handler the server runs for each request *)

\* The outcome of next.ServeHTTP: the response the handler wrote, or a panic
Wrote(status) == [panic |-> FALSE, value |-> <<>>, status |-> status, header |-> {}]
Panicked(value) == [panic |-> TRUE, value |-> value, status |-> "", header |-> {}]

\* The handlers a request may run: the health check, the router's not-found handler, the
\* list handler on a sort value, and a handler that hands Movies.GetAll a Filters value
\* it has not validated
Handlers ==
    {[name |-> "healthcheck", sort |-> <<>>], [name |-> "notFound", sort |-> <<>>]}
        \cup {[name |-> "list", sort |-> str] : str \in {str_id, Minus(str_year), str_budget}}
        \cup {[name |-> "unvalidated", sort |-> str] : str \in {str_title, str_budget}}

\* Movies.GetAll reaches sortColumn, which returns or panics
GetAllOutcome(f) ==
    IF sortColumn(f).panic THEN Panicked(sortColumn(f).value) ELSE Wrote("ok")

\* next.ServeHTTP(w, r) for the handler h
ServeHTTP(h) ==
    LET f == ListFilters(Absent, Absent, TextValue(h.sort))
    IN  CASE h.name = "healthcheck" -> Wrote("ok")
          [] h.name = "notFound" -> Wrote("notFound")
          [] h.name = "list" -> IF Valid(ValidateFilters(NoErrors, f))
                                THEN GetAllOutcome(f)
                                ELSE Wrote("failedValidation")
          [] OTHER -> GetAllOutcome(f)

\* Mutant: the recovered panic is answered without the Connection header
recoverPanicKeepsAlive(out) ==
    IF out.panic
    THEN [status |-> "serverError", header |-> {}, error |-> out.value, recovered |-> TRUE]
    ELSE [status |-> out.status, header |-> out.header, error |-> <<>>, recovered |-> FALSE]

\* recoverPanic: what the client gets for the outcome of next.ServeHTTP
recoverPanic(out) ==
    IF out.panic
    THEN [status |-> "serverError", header |-> {"Connection: close"}, error |-> out.value,
          recovered |-> TRUE]
    ELSE [status |-> out.status, header |-> out.header, error |-> <<>>, recovered |-> FALSE]

NoReply == [status |-> "", header |-> {}, error |-> <<>>, recovered |-> FALSE]

IdleConn == [pc |-> "idle", handler |-> [name |-> "", sort |-> <<>>], reply |-> NoReply,
             afterPanic |-> FALSE]  \* history: accepted after a panic had been recovered

-----------------------------------------------------------------------------
(* application.serve *)

SIGINT == "interrupt"
SIGTERM == "terminated"
Signals == {SIGINT, SIGTERM}

ErrServerClosed == "http: Server closed"
ListenError == "listen tcp :4000: bind: address already in use"
DeadlineExceeded == "context deadline exceeded"

\* The process is alive
Running == ~srv.killed

\* serve() up to the call of ListenAndServe: the goroutine is started
ServeStart ==
    /\ Running
    /\ main.pc = "start"
    /\ main' = [main EXCEPT !.pc = "listen"]
    /\ bg' = [bg EXCEPT !.pc = "notify"]
    /\ UNCHANGED <<quit, srv, conns, apiVars>>

\* The goroutine: make(chan os.Signal, 1) and signal.Notify
Notify ==
    /\ Running
    /\ bg.pc = "notify"
    /\ bg' = [bg EXCEPT !.pc = "wait"]
    /\ srv' = [srv EXCEPT !.notified = TRUE]
    /\ UNCHANGED <<main, quit, conns, apiVars>>

\* The environment sends sig to the process: relayed to quit without blocking (dropped when
\* the buffer is full) once Notify has run, the end of the process before
Deliver(sig) ==
    /\ Running
    /\ srv.signals < MaxSignals
    /\ IF srv.notified
       THEN /\ quit' = IF Len(quit) < 1 THEN Append(quit, sig) ELSE quit
            /\ srv' = [srv EXCEPT !.signals = @ + 1]
       ELSE /\ quit' = quit
            /\ srv' = [srv EXCEPT !.signals = @ + 1, !.killed = TRUE]
    /\ UNCHANGED <<main, bg, conns, apiVars>>

\* The goroutine: s := <-quit
ReadQuit ==
    /\ Running
    /\ bg.pc = "wait"
    /\ quit # <<>>
    /\ bg' = [bg EXCEPT !.pc = "shutdown", !.sig = Head(quit)]
    /\ quit' = Tail(quit)
    /\ UNCHANGED <<main, srv, conns, apiVars>>

\* The goroutine calls srv.Shutdown(ctx): the server stops accepting
ShutdownCalled ==
    /\ Running
    /\ bg.pc = "shutdown"
    /\ bg' = [bg EXCEPT !.pc = "in Shutdown"]
    /\ srv' = [srv EXCEPT !.inShutdown = TRUE]
    /\ UNCHANGED <<main, quit, conns, apiVars>>

Serving == {c \in Conns : conns[c].pc = "serving"}

\* srv.Shutdown(ctx) returns: nil once no connection is being served, the context's error
\* when the 5 seconds pass with one still served
ShutdownReturns ==
    /\ Running
    /\ bg.pc = "in Shutdown"
    /\ bg' = [bg EXCEPT !.pc = "send",
                        !.value = IF Serving = {} THEN NoError ELSE DeadlineExceeded]
    /\ srv' = [srv EXCEPT !.shutdown = Some(bg'.value)]
    /\ UNCHANGED <<main, quit, conns, apiVars>>

\* srv.ListenAndServe() returns ErrServerClosed: serve() goes on to the receive
ListenAndServeClosed ==
    /\ Running
    /\ main.pc = "listen"
    /\ srv.inShutdown
    /\ main' = [main EXCEPT !.pc = "receive"]
    /\ UNCHANGED <<bg, quit, srv, conns, apiVars>>

\* srv.ListenAndServe() returns another error: serve() returns it
ListenAndServeFails ==
    /\ Running
    /\ main.pc = "listen"
    /\ ~srv.inShutdown
    /\ main' = [main EXCEPT !.pc = "returned", !.err = Some(ListenError)]
    /\ srv' = [srv EXCEPT !.failed = TRUE]
    /\ UNCHANGED <<bg, quit, conns, apiVars>>

\* shutdownError <- v meets err = <-shutdownError: serve() returns v
Receive ==
    /\ Running
    /\ main.pc = "receive"
    /\ bg.pc = "send"
    /\ main' = [main EXCEPT !.pc = "returned", !.err = Some(bg.value), !.received = Some(bg.value)]
    /\ bg' = [bg EXCEPT !.pc = "done"]
    /\ UNCHANGED <<quit, srv, conns, apiVars>>

\* The server accepts a connection and starts the handler of its request
Accept(c, h) ==
    /\ Running
    /\ main.pc = "listen"
    /\ ~srv.inShutdown
    /\ conns[c].pc = "idle"
    /\ conns' = [conns EXCEPT ![c] =
            [@ EXCEPT !.pc = "serving", !.handler = h,
                      !.afterPanic = \E c2 \in Conns : conns[c2].reply.recovered]]
    /\ UNCHANGED <<main, bg, quit, srv, apiVars>>

\* recoverPanic(router).ServeHTTP returns: the response is sent
Served(c) ==
    /\ Running
    /\ conns[c].pc = "serving"
    /\ conns' = [conns EXCEPT ![c] =
            [@ EXCEPT !.pc = "done", !.reply = recoverPanic(ServeHTTP(conns[c].handler))]]
    /\ UNCHANGED <<main, bg, quit, srv, apiVars>>

InitServe ==
    /\ main = [pc |-> "start", err |-> Nil, received |-> Nil]
    /\ bg = [pc |-> "none", sig |-> "", value |-> NoError]
    /\ quit = <<>>
    /\ srv = [notified |-> FALSE, inShutdown |-> FALSE, killed |-> FALSE, failed |-> FALSE,
              signals |-> 0, shutdown |-> Nil]
    /\ conns = [c \in Conns |-> IdleConn]

InitMovies ==
    /\ movies = (1 :> FirstMovie)
    /\ nextID = 2
    /\ returnsVersion \in BOOLEAN
    /\ req = [r \in Reqs |-> IdleReq]
    /\ lastOp = NoOp
    /\ succeeded = {}

Init == InitMovies /\ InitList /\ InitServe

Next ==
    \/ \E r \in Reqs, id \in IdParams : UpdateFetch(r, id)
    \/ \E r \in Reqs, body \in Bodies : UpdatePrepare(r, body)
    \/ \E r \in Reqs : UpdateCommit(r)
    \/ \E r \in Reqs : UpdateCommitAgain(r)
    \/ \E r \in Reqs, body \in Bodies : CreateMovie(r, body)
    \/ \E r \in Reqs, id \in IdParams : DeleteMovie(r, id)
    \/ \E r \in Reqs, id \in IdParams : ShowMovie(r, id)

Spec == Init /\ [][Next]_vars

\* The list endpoint and the Filters functions
NextFilters ==
    \/ \E page \in PageValues, page_size \in PageSizeValues, sort \in SortValues :
            ListMovies(page, page_size, sort)
    \/ \E page \in PageInts, page_size \in PageSizeInts, sort \in SortStrings, list \in SafeLists :
            CallValidateFilters([Page |-> page, PageSize |-> page_size, Sort |-> sort,
                                 SortSafeList |-> list])
    \/ \E page \in PageInts, page_size \in PageSizeInts :
            CallBounds([Page |-> page, PageSize |-> page_size, Sort |-> str_id,
                        SortSafeList |-> MovieSortSafeList])
    \/ \E sort \in SortStrings, list \in SortSafeLists :
            CallSort([Page |-> DefaultPage, PageSize |-> DefaultPageSize, Sort |-> sort,
                      SortSafeList |-> list])
    \/ \E totalRecords \in Totals, page \in MetadataPages, pageSize \in MetadataPageSizes :
            CallCalculateMetadata(totalRecords, page, pageSize)

SpecFilters == Init /\ [][NextFilters]_vars

\* serve(), the signals and the connections
NextServe ==
    \/ ServeStart
    \/ Notify
    \/ \E sig \in Signals : Deliver(sig)
    \/ ReadQuit
    \/ ShutdownCalled
    \/ ShutdownReturns
    \/ ListenAndServeClosed
    \/ ListenAndServeFails
    \/ Receive
    \/ \E c \in Conns, h \in Handlers : Accept(c, h)
    \/ \E c \in Conns : Served(c)

\* One universe of the store suffices for serve()
InitOneStore == Init /\ returnsVersion

SpecServe == InitOneStore /\ [][NextServe]_vars

\* Both goroutines are scheduled, the library calls return and handlers come to an end;
\* signals, listen failures and new connections are up to the environment
FairServe ==
    /\ WF_vars(ServeStart) /\ WF_vars(Notify) /\ WF_vars(ReadQuit)
    /\ WF_vars(ShutdownCalled) /\ WF_vars(ShutdownReturns)
    /\ WF_vars(ListenAndServeClosed) /\ WF_vars(Receive)
    /\ \A c \in Conns : WF_vars(Served(c))

SpecServeFair == SpecServe /\ FairServe

-----------------------------------------------------------------------------
(* Properties of the update protocol *)

Done(r) == req[r].pc = "done"

\* The store received a new Update call in this step
UpdateCalled == lastOp'.op = "Update" /\ <<lastOp'.req, lastOp'.n>> # <<lastOp.req, lastOp.n>>

\* r1 and r2 are update requests that fetched the same record at the same version, have
\* both reached the commit step and have finished, and no other request wrote that record
TwoUpdatersDone(r1, r2) ==
    /\ r1 # r2
    /\ req[r1].kind = "update" /\ req[r2].kind = "update"
    /\ Done(r1) /\ Done(r2)
    /\ req[r1].calls >= 1 /\ req[r2].calls >= 1
    /\ req[r1].id = req[r2].id
    /\ req[r1].fetched.version = req[r2].fetched.version
    /\ \A r3 \in Reqs \ {r1, r2} : req[r3].wrote = 0

\* C1: of two update requests that fetched a record at the same version v and both
\* committed, one ends with the success response, the other with the edit-conflict
\* response, and the stored record ends at version v + 1.
C1_OneCommitsOtherConflicts ==
    \A r1, r2 \in Reqs :
        TwoUpdatersDone(r1, r2) =>
            /\ \/ req[r1].resp.status = "ok" /\ req[r2].resp.status = "editConflict"
               \/ req[r2].resp.status = "ok" /\ req[r1].resp.status = "editConflict"
            /\ StoredVersion(req[r1].id) = req[r1].fetched.version + 1

\* C2: no lost update: every write Update persisted was submitted with the version stored
\* immediately before it, and that is the version the writing request had last read.
C2_NoLostUpdate ==
    (lastOp.op = "Update" /\ lastOp.err = NoError) =>
        /\ lastOp.version = lastOp.before
        /\ lastOp.seen = lastOp.before

\* An update persisted on a record that another request's update had written before
C2_Witness ==
    /\ lastOp.op = "Update" /\ lastOp.err = NoError
    /\ \E r \in Reqs \ {lastOp.req} :
            req[r].kind = "update" /\ req[r].id = lastOp.id /\ req[r].wrote >= 1

\* C3: an update request one of whose Update calls returned ErrEditConflict ends with the
\* edit-conflict response.
C3_ConflictGetsEditConflictResponse ==
    \A r \in Reqs :
        (req[r].kind = "update" /\ Done(r) /\ req[r].conflict) =>
            req[r].resp.status = "editConflict"

\* C4: one update request calls the store's Update at most once.
C4_UpdateCalledAtMostOnce ==
    \A r \in Reqs : req[r].kind = "update" => req[r].calls <= 1

\* C5: a stored version is at least 1 and never decreases; a row changes only through an
\* Update whose submitted version equals the stored one, which raises the version by
\* exactly 1; an Update whose submitted version differs leaves the table unchanged.
C5_VersionDiscipline ==
    [][ /\ \A id \in DOMAIN movies' : movies'[id].version >= 1
        /\ \A id \in DOMAIN movies \cap DOMAIN movies' :
              /\ movies'[id].version >= movies[id].version
              /\ movies'[id] # movies[id] =>
                    /\ UpdateCalled
                    /\ lastOp'.id = id
                    /\ lastOp'.version = movies[id].version
                    /\ movies'[id].version = movies[id].version + 1
        /\ (UpdateCalled /\ lastOp'.version # StoredVersion(lastOp'.id)) =>
              /\ movies' = movies
              /\ lastOp'.err = ErrEditConflict
      ]_vars

\* An Update with a stale version was refused on a record that earlier Updates had raised
C5_Witness ==
    /\ lastOp.op = "Update" /\ lastOp.err = ErrEditConflict
    /\ lastOp.id \in DOMAIN movies
    /\ movies[lastOp.id].version >= 2
    /\ lastOp.version < movies[lastOp.id].version

\* C6: once an Update submitted with version v has succeeded on a record, every further
\* Update submitted for that record with the same v returns ErrEditConflict and writes nothing.
C6_StaleUpdateRejected ==
    [][ (UpdateCalled /\ <<lastOp'.id, lastOp'.version>> \in succeeded) =>
            /\ lastOp'.err = ErrEditConflict
            /\ movies' = movies
            /\ succeeded' = succeeded
      ]_vars

\* An Update was repeated with the version of an Update that had succeeded, and refused
C6_Witness ==
    /\ lastOp.op = "Update" /\ lastOp.err = ErrEditConflict
    /\ <<lastOp.id, lastOp.version>> \in succeeded
    /\ lastOp.id \in DOMAIN movies

\* C7: every record submitted to the store's Update is the fetched record with the fields
\* present in the payload replaced by the payload's values, the others and the id kept, and
\* carries the version read at the fetch.
C7_SubmittedIsMergeAtFetchedVersion ==
    lastOp.op = "Update" =>
        LET q == req[lastOp.req]
        IN  /\ q.movie.title = (IF IsNil(q.input.title) THEN q.fetched.title ELSE Val(q.input.title))
            /\ q.movie.year = (IF IsNil(q.input.year) THEN q.fetched.year ELSE Val(q.input.year))
            /\ q.movie.runtime = (IF IsNil(q.input.runtime) THEN q.fetched.runtime ELSE Val(q.input.runtime))
            /\ q.movie.genres = (IF IsNil(q.input.genres) THEN q.fetched.genres ELSE Val(q.input.genres))
            /\ lastOp.id = q.fetched.id
            /\ lastOp.version = q.fetched.version

\* The record of a create or update request once the body has been decoded and merged
PastMerge(r) ==
    /\ req[r].kind \in {"create", "update"}
    /\ req[r].pc \in {"update", "update again", "done"}
    /\ req[r].resp.status \notin {"badRequest", "notFound"}

\* The domain rules, on the fields of a record
DomainRulesHold(m) ==
    /\ m.title # "" /\ TitleBytes(m.title) <= 500
    /\ m.year >= 1888 /\ m.year <= CurrentYear
    /\ m.runtime > 0
    /\ Len(m.genres) \in 1..5
    /\ \A i, j \in 1..Len(m.genres) : m.genres[i] = m.genres[j] => i = j

\* C8: a create or update request whose (merged) record breaks a domain rule ends with the
\* field-error response without having called Insert or Update; an update whose payload
\* holds an explicitly empty genres list is such a request.
C8_InvalidRecordNeverWritten ==
    \A r \in Reqs :
        /\ (PastMerge(r) /\ ~DomainRulesHold(req[r].movie)) =>
              /\ Done(r)
              /\ req[r].resp.status = "failedValidation"
              /\ req[r].resp.errors # NoErrors
              /\ req[r].calls = 0 /\ req[r].wrote = 0
              /\ lastOp.req # r
        /\ (PastMerge(r) /\ req[r].kind = "update" /\ req[r].input.genres = Some(<<>>)) =>
              /\ req[r].resp.status = "failedValidation"
              /\ "genres" \in DOMAIN req[r].resp.errors
              /\ req[r].calls = 0

\* An update whose payload holds "genres": [] was refused, and so was an invalid create
C8_Witness ==
    /\ \E r \in Reqs :
          /\ req[r].kind = "update" /\ Done(r)
          /\ req[r].input.genres = Some(<<>>)
          /\ req[r].resp.status = "failedValidation"
    /\ \E r \in Reqs :
          /\ req[r].kind = "create" /\ Done(r)
          /\ req[r].resp.status = "failedValidation"

\* C17: a record the create handler stores gets the id the store assigns (one no row has
\* or had) and version 1, and holds the title, year, runtime and genres of the body; the
\* record submitted to Insert carries no id and no version, whatever the body holds.
C17_CreatedWithStoreIdAndVersionOne ==
    [][ \A id \in DOMAIN movies' \ DOMAIN movies :
            LET q == req'[lastOp'.req]
            IN  /\ lastOp'.op = "Insert" /\ lastOp'.id = id
                /\ id = nextID /\ nextID' > nextID
                /\ movies'[id] = [title |-> OrZero(q.input.title, ""),
                                  year |-> OrZero(q.input.year, 0),
                                  runtime |-> OrZero(q.input.runtime, 0),
                                  genres |-> OrZero(q.input.genres, <<>>),
                                  version |-> 1]
                /\ lastOp'.sent = 0 /\ lastOp'.version = 0
                /\ q.kind = "create" /\ q.resp.status = "created"
                /\ q.movie.id = id /\ q.movie.version = 1
      ]_vars

\* A body holding "id": 1 and "version": 7 created record 2 at version 1
C17_Witness ==
    /\ lastOp.op = "Insert"
    /\ req[lastOp.req].input.id = Some(1) /\ req[lastOp.req].input.version = Some(7)
    /\ lastOp.id = 2 /\ lastOp.id \in DOMAIN movies
    /\ movies[lastOp.id].version = 1
    /\ req[lastOp.req].resp.status = "created"

\* Request r enters its handler in this step, for a record that is not stored
StartsOnMissingRecord(r) ==
    /\ req[r].pc = "idle" /\ req'[r].pc # "idle"
    /\ req'[r].kind \in {"show", "update", "delete"}
    /\ req'[r].id \notin DOMAIN movies

\* C16: a show, update or delete request for an id that has no stored record ends with a
\* 404 response; an update does so at the fetch, before the merge, the validation and any
\* store write, and the store is left unchanged.
C16_MissingRecordIsNotFound ==
    [][ \A r \in Reqs :
            StartsOnMissingRecord(r) =>
                /\ req'[r].pc = "done"
                /\ StatusCode(req'[r].resp.status) = 404
                /\ req'[r].input = NoInput
                /\ req'[r].calls = 0 /\ req'[r].wrote = 0
                /\ movies' = movies
                /\ req'[r].kind = "update" => lastOp' = lastOp
      ]_vars

\* An update and a show for an id above 0 that is not stored ended with the 404 response
C16_Witness ==
    /\ \E r \in Reqs :
          /\ req[r].kind = "update" /\ Done(r) /\ req[r].id >= 1
          /\ req[r].resp.status = "notFound" /\ req[r].calls = 0
    /\ \E r \in Reqs :
          /\ req[r].kind = "show" /\ Done(r) /\ req[r].id >= 1
          /\ req[r].resp.status = "notFound"

\* Update request r has made its commit step and ended, and every write to its record
\* since its fetch was its own: the record is stored and each write raised the version by 1
EndedWithoutOtherWriter(r) ==
    /\ req[r].kind = "update" /\ Done(r)
    /\ req[r].calls >= 1
    /\ req[r].id \in DOMAIN movies
    /\ StoredVersion(req[r].id) = req[r].fetched.version + req[r].wrote

\* C18: an update request with a valid merged record and no concurrent writer on the
\* record ends with the success response, the stored version is the fetched version plus 1,
\* and the version in the response is the stored version.
C18_LoneUpdateRaisesVersionByOne ==
    \A r \in Reqs :
        EndedWithoutOtherWriter(r) =>
            /\ req[r].resp.status = "ok"
            /\ StoredVersion(req[r].id) = req[r].fetched.version + 1
            /\ req[r].movie.version = StoredVersion(req[r].id)

\* C19: an update request that ends with the edit-conflict, the not-found or the
\* validation-error response has written nothing to the store; a request that has
\* persisted a write and has ended, ended with the success response.
C19_OnlySuccessPersists ==
    \A r \in Reqs :
        (req[r].kind = "update" /\ Done(r)) =>
            /\ req[r].resp.status \in {"editConflict", "notFound", "failedValidation"} =>
                  req[r].wrote = 0
            /\ req[r].wrote >= 1 => req[r].resp.status = "ok"

\* The update requests that fetched record id at version v and reached the commit step
FetchedAt(id, v) ==
    {r \in Reqs : /\ req[r].kind = "update" /\ req[r].calls >= 1
                  /\ req[r].id = id /\ req[r].fetched.version = v}

\* C20: an update request that fetches the record after an update of the same record has
\* ended with the edit-conflict response, and meets no other writer, ends with the success
\* response; and of the update requests that fetched a record (not deleted since) at the
\* same version and have all made their commit step and ended, at least one ended with
\* the success response.
C20_RetryProgress ==
    /\ \A r1, r2 \in Reqs :
          (r1 \in req[r2].after /\ EndedWithoutOtherWriter(r2)) => req[r2].resp.status = "ok"
    /\ \A id \in DOMAIN movies : \A v \in 1..StoredVersion(id) :
          (FetchedAt(id, v) # {} /\ \A r \in FetchedAt(id, v) : Done(r)) =>
              \E r \in FetchedAt(id, v) : req[r].resp.status = "ok"

\* C21: conflicts are per record: a step changes or removes no row but the one its store
\* call names, and an Update is refused with ErrEditConflict only after an update or
\* delete request has written the very record it names.
C21_ConflictsArePerRecord ==
    [][ /\ \A id \in DOMAIN movies :
              (id \notin DOMAIN movies' \/ movies'[id] # movies[id]) =>
                  /\ lastOp' # lastOp
                  /\ lastOp'.op \in {"Update", "Delete"}
                  /\ lastOp'.id = id
        /\ \A id \in DOMAIN movies' \ DOMAIN movies :
              lastOp'.op = "Insert" /\ lastOp'.id = id
        /\ (UpdateCalled /\ lastOp'.err = ErrEditConflict) =>
              \E r \in Reqs : /\ req[r].kind \in {"update", "delete"}
                              /\ req[r].id = lastOp'.id
                              /\ req[r].wrote >= 1
      ]_vars

\* An update of record 1 was accepted next to a request that created record 2
C21_Witness ==
    \E r1, r2 \in Reqs :
        /\ req[r1].kind = "create" /\ req[r1].resp.status = "created" /\ req[r1].id = 2
        /\ req[r2].kind = "update" /\ req[r2].id = 1
        /\ lastOp.op = "Update" /\ lastOp.req = r2 /\ lastOp.err = NoError
        /\ 2 \in DOMAIN movies /\ movies[2].version = 1

\* C22: an Update call that finds its record deleted since the request's fetch writes no
\* row and does not bring the record back, and the request ends with the edit-conflict
\* response.
C22_UpdateOfDeletedRecordConflicts ==
    (lastOp.op = "Update" /\ lastOp.before = 0) =>
        /\ lastOp.err = ErrEditConflict
        /\ lastOp.id \notin DOMAIN movies
        /\ Done(lastOp.req)
        /\ req[lastOp.req].resp.status = "editConflict"

-----------------------------------------------------------------------------
(* Properties of the list endpoint and of ValidateFilters *)

\* The three conditions on a Filters value
PageInRange(f) == f.Page \in 1..MaxPage
PageSizeInRange(f) == f.PageSize \in 1..MaxPageSize
SortInSafeList(f) == f.Sort \in {f.SortSafeList[i] : i \in 1..Len(f.SortSafeList)}

\* C9: a list request whose page, page_size or sort breaks one of the conditions ends with
\* the field-error response and GetAll is not called; every Filters value GetAll is called
\* with meets the three conditions.
C9_GetAllOnlyWithValidFilters ==
    /\ (lreq.pc = "done"
            /\ ~(PageInRange(lreq.filters) /\ PageSizeInRange(lreq.filters)
                    /\ SortInSafeList(lreq.filters))) =>
          /\ lreq.resp.status = "failedValidation"
          /\ lreq.resp.errors # NoErrors
          /\ lreq.getAll = <<>>
    /\ \A i \in 1..Len(lreq.getAll) :
          /\ PageInRange(lreq.getAll[i])
          /\ PageSizeInRange(lreq.getAll[i])
          /\ SortInSafeList(lreq.getAll[i])

\* A list request with a sort value outside the safelist (and nothing else wrong) was refused
C9_Witness ==
    /\ lreq.pc = "done"
    /\ PageInRange(lreq.filters) /\ PageSizeInRange(lreq.filters)
    /\ ~SortInSafeList(lreq.filters)
    /\ lreq.resp.status = "failedValidation"
    /\ lreq.getAll = <<>>

\* The fields ValidateFilters must report for f
ExpectedFilterErrors(f) ==
    (IF PageInRange(f) THEN {} ELSE {"page"})
        \cup (IF PageSizeInRange(f) THEN {} ELSE {"page_size"})
        \cup (IF SortInSafeList(f) THEN {} ELSE {"sort"})

\* The fields readInt reported before ValidateFilters ran
ReadIntErrors(q) ==
    (IF q.page.given /\ ~q.page.int THEN {"page"} ELSE {})
        \cup (IF q.page_size.given /\ ~q.page_size.int THEN {"page_size"} ELSE {})

\* C10: ValidateFilters on a fresh validator leaves an error on exactly the fields whose
\* condition fails (page outside 1..10000000, page_size outside 1..100, sort not in the
\* safelist), all of them at once; in the list handler it adds exactly those fields to the
\* ones readInt reported.
C10_AllFilterErrorsCollected ==
    /\ call.fn = "ValidateFilters" => DOMAIN call.out = ExpectedFilterErrors(call.f)
    /\ lreq.pc = "done" =>
          DOMAIN lreq.errors = ReadIntErrors(lreq) \cup ExpectedFilterErrors(lreq.filters)

\* page = 0, pageSize = 101 and sort = "budget" gave the three errors at once
C10_Witness ==
    /\ call.fn = "ValidateFilters"
    /\ call.f.Page = 0 /\ call.f.PageSize = 101 /\ call.f.Sort = str_budget
    /\ call.f.SortSafeList = MovieSortSafeList
    /\ DOMAIN call.out = {"page", "page_size", "sort"}

-----------------------------------------------------------------------------
(* Properties of limit, offset, sortColumn, sortDirection and the metadata *)

\* C11: for every page in 1..10000000 and page size in 1..100, limit() is the page size and
\* lies in 1..100, and offset() is (page - 1) * page size and is not negative.
C11_BoundsOfValidFilters ==
    (call.fn = "bounds" /\ PageInRange(call.f) /\ PageSizeInRange(call.f)) =>
        /\ call.out.limit = call.f.PageSize
        /\ call.out.limit \in 1..MaxPageSize
        /\ call.out.offset = (call.f.Page - 1) * call.f.PageSize
        /\ call.out.offset >= 0

\* limit and offset were applied to the largest page and page size, and to page 1
C11_Witness ==
    /\ call.fn = "bounds"
    /\ call.f.Page = MaxPage /\ call.f.PageSize = MaxPageSize
    /\ call.out.limit = MaxPageSize
    /\ call.out.offset = (MaxPage - 1) * MaxPageSize

\* The key begins with a hyphen
BeginsWithHyphen(str) == str # <<>> /\ Head(str) = "-"

\* C12: for a sort key of the safelist, sortColumn returns the key without its first
\* character when that is a hyphen (one hyphen only) and the key itself otherwise, and
\* sortDirection returns DESC if the key begins with a hyphen and ASC if not; "-year"
\* resolves to (year, DESC) and "title" to (title, ASC).
C12_SortColumnAndDirection ==
    /\ (call.fn = "sort" /\ SortInSafeList(call.f)) =>
          /\ ~call.out.column.panic
          /\ call.out.column.value =
                (IF BeginsWithHyphen(call.f.Sort) THEN Tail(call.f.Sort) ELSE call.f.Sort)
          /\ call.out.direction = (IF BeginsWithHyphen(call.f.Sort) THEN "DESC" ELSE "ASC")
          /\ call.out.direction = "DESC" <=> BeginsWithHyphen(call.f.Sort)
    /\ (call.fn = "sort" /\ SortInSafeList(call.f) /\ call.f.Sort = Minus(str_year)) =>
          call.out = [column |-> Returns(str_year), direction |-> "DESC"]
    /\ (call.fn = "sort" /\ SortInSafeList(call.f) /\ call.f.Sort = str_title) =>
          call.out = [column |-> Returns(str_title), direction |-> "ASC"]

\* A safelisted key that begins with two hyphens kept the second one
C12_Witness ==
    /\ call.fn = "sort"
    /\ SortInSafeList(call.f)
    /\ call.f.Sort = Minus(Minus(str_id))
    /\ call.out = [column |-> Returns(Minus(str_id)), direction |-> "DESC"]

\* C13: sortColumn panics exactly when the sort key is not in the safelist, and it never
\* panics under the list endpoint: every Filters value the list handler passes to
\* Movies.GetAll has passed ValidateFilters against the safelist it carries.
C13_PanicOnlyOutsideSafeList ==
    /\ call.fn = "sort" => (call.out.column.panic <=> ~SortInSafeList(call.f))
    /\ ~lreq.panicked
    /\ lreq.resp.status # "serverError"
    /\ \A i \in 1..Len(lreq.getAll) :
          /\ Valid(ValidateFilters(NoErrors, lreq.getAll[i]))
          /\ SortInSafeList(lreq.getAll[i])
          /\ ~sortColumn(lreq.getAll[i]).panic

\* sortColumn panicked on a key outside the safelist it was given
C13_Witness ==
    /\ call.fn = "sort"
    /\ ~SortInSafeList(call.f)
    /\ call.f.SortSafeList # <<>>
    /\ call.out.column.panic

\* C14: for totalRecords >= 1 and pageSize >= 1 the metadata has LastPage the integer
\* ceiling of totalRecords / pageSize, FirstPage 1, and CurrentPage, PageSize and
\* TotalRecords equal to the inputs; (21, 1, 20) gives LastPage 2, (20, 1, 20) LastPage 1.
C14_LastPageIsCeiling ==
    (call.fn = "calculateMetadata" /\ call.f.TotalRecords >= 1 /\ call.f.PageSize >= 1) =>
        /\ (call.out.LastPage - 1) * call.f.PageSize < call.f.TotalRecords
        /\ call.f.TotalRecords <= call.out.LastPage * call.f.PageSize
        /\ call.out.FirstPage = 1
        /\ call.out.CurrentPage = call.f.Page
        /\ call.out.PageSize = call.f.PageSize
        /\ call.out.TotalRecords = call.f.TotalRecords
        /\ (call.f.TotalRecords = 21 /\ call.f.PageSize = 20) => call.out.LastPage = 2
        /\ (call.f.TotalRecords = 20 /\ call.f.PageSize = 20) => call.out.LastPage = 1

\* 21 records in pages of 20 gave two pages
C14_Witness ==
    /\ call.fn = "calculateMetadata"
    /\ call.f.TotalRecords = 21 /\ call.f.Page = 1 /\ call.f.PageSize = 20
    /\ call.out.LastPage = 2

\* C15: when totalRecords is 0 the metadata is the all-zero record for every page and
\* page size: CurrentPage, PageSize, FirstPage, LastPage and TotalRecords are 0.
C15_ZeroMetadataWhenEmpty ==
    (call.fn = "calculateMetadata" /\ call.f.TotalRecords = 0) =>
        /\ call.out.CurrentPage = 0
        /\ call.out.PageSize = 0
        /\ call.out.FirstPage = 0
        /\ call.out.LastPage = 0
        /\ call.out.TotalRecords = 0

\* The metadata of no records on page 2 with page size 20 is all zero
C15_Witness ==
    /\ call.fn = "calculateMetadata"
    /\ call.f.TotalRecords = 0 /\ call.f.Page = 2 /\ call.f.PageSize = 20
    /\ call.out = ZeroMetadata

\* The column names and directions the list query may be ordered by
FixedColumns == {str_id, str_title, str_year, str_runtime}
Directions == {"ASC", "DESC"}

\* C23: for every list request that reaches Movies.GetAll, the sort column handed to the
\* store is one of id, title, year, runtime and the direction is ASC or DESC, whatever
\* string the client sent as sort; a request whose sort text is anything else hands the
\* store nothing.
C23_OrderByFromFixedNames ==
    /\ lreq.getAll # <<>> =>
          /\ lreq.query.column \in FixedColumns
          /\ lreq.query.direction \in Directions
          /\ lreq.query.column = sortColumn(lreq.getAll[1]).value
          /\ lreq.query.direction = sortDirection(lreq.getAll[1])
    /\ (lreq.pc = "done" /\ lreq.sort.given /\ lreq.sort.text # <<>>
            /\ lreq.sort.text \notin FixedColumns
            /\ lreq.sort.text \notin {Minus(str) : str \in FixedColumns}) =>
          /\ lreq.getAll = <<>>
          /\ lreq.query = NoQuery

\* "-year" from the client reached the store as (year, DESC)
C23_Witness ==
    /\ lreq.pc = "done"
    /\ lreq.sort = TextValue(Minus(str_year))
    /\ lreq.getAll # <<>>
    /\ lreq.query.column = str_year /\ lreq.query.direction = "DESC"

-----------------------------------------------------------------------------
(* Properties of the middleware and of serve() *)

\* The sort value of the handler is one of the safelisted names
SortSafeListed(h) == \E i \in DOMAIN MovieSortSafeList : MovieSortSafeList[i] = h.sort

\* The handler reaches sortColumn with a sort value outside the safelist
HandlerPanics(h) == h.name = "unvalidated" /\ ~SortSafeListed(h)

\* What the handler itself answers when it does not panic
HandlerStatus(h) ==
    CASE h.name = "healthcheck" -> "ok"
      [] h.name = "notFound" -> "notFound"
      [] h.name = "list" /\ ~SortSafeListed(h) -> "failedValidation"
      [] OTHER -> "ok"

\* C24: a request whose handler panics (sortColumn on a sort value outside the safelist)
\* is answered with the server-error response, status 500, carrying the header
\* "Connection: close", and the step that answers it changes nothing else: the process
\* lives on, serve() and its goroutine stay where they are, the other connections are
\* untouched.  A request whose handler does not panic gets exactly what the handler
\* wrote, with no header added.
C24_PanicIsRecovered ==
    [][\A c \in Conns :
          (conns[c].pc = "serving" /\ conns'[c].pc = "done") =>
              LET h == conns[c].handler
                  reply == conns'[c].reply
              IN  /\ HandlerPanics(h) =>
                        /\ reply.status = "serverError"
                        /\ StatusCode(reply.status) = 500
                        /\ "Connection: close" \in reply.header
                  /\ ~HandlerPanics(h) =>
                        /\ reply.status = HandlerStatus(h)
                        /\ reply.header = {}
                        /\ ~reply.recovered
                  /\ ~srv'.killed
                  /\ <<main, bg, quit, srv>>' = <<main, bg, quit, srv>>
                  /\ \A c2 \in Conns \ {c} : conns'[c2] = conns[c2]
     ]_vars

\* A request accepted after a panic had been recovered was served with 200 by the same
\* process, and the panicking request got 500 with "Connection: close"
C24_Witness ==
    \E c1, c2 \in Conns :
        /\ conns[c1].pc = "done" /\ HandlerPanics(conns[c1].handler)
        /\ conns[c1].reply.status = "serverError"
        /\ "Connection: close" \in conns[c1].reply.header
        /\ conns[c2].pc = "done" /\ conns[c2].afterPanic
        /\ conns[c2].reply.status = "ok"
        /\ Running

C26_ShutdownTerminates ==
    (quit # <<>>) ~> /\ srv.inShutdown
                     /\ main.pc = "returned"
                     /\ main.received # Nil
                     /\ bg.pc = "done"

====
